---- MODULE Spec2Model ----
(***************************************************************************)
(* gpool: Pool[T], a generic wrapper around sync.Pool (src/pool.go).       *)
(*                                                                         *)
(* The model has one pool, NumCallers goroutines that call Get and Put on  *)
(* it, the heap objects the pooled pointers refer to, and the embedded     *)
(* sync.Pool seen through its contract: an unordered multiset of boxed     *)
(* (`any`) values, a New hook called by Get on a miss, and a reclamation   *)
(* step that may discard any idle value at any time.  Get is two steps     *)
(* when the store is empty (the lookup, then the New hook and the return), *)
(* so that callers racing on an empty store interleave as in sync.Pool,    *)
(* which calls New outside of any lock.  Put is one step.                  *)
(*                                                                         *)
(* A value of type T is a natural number read according to `kind`:         *)
(*   "ptr"   *Obj        0 is the nil pointer, n > 0 points to object n    *)
(*   "val"   struct{X}   n is the field X, 0 is the zero value             *)
(*   "iface" interface   0 is the nil interface, n > 0 holds a pointer to  *)
(*                       object n                                          *)
(* A value of type `any` is a record [dyn, ref]: dyn is the dynamic type   *)
(* ("none" for the nil interface), ref the value.                          *)
(***************************************************************************)
EXTENDS Naturals, FiniteSets, Bags, TLC

\* ---- bounds of the model ----
NumCallers == 2
MaxObj == 2
MaxData == 1
MaxStore == 2
MaxNew == 2

Callers == 1..NumCallers
Objs == 1..MaxObj
Data == 0..MaxData
Kinds == {"ptr", "val", "iface"}

VARIABLES
    kind,        \* the type parameter T of Pool[T]
    factory,     \* what newFunc does: "fresh" or "nil"
    hook,        \* sync.Pool.New: "adapter" (set by New) or "nilfunc"
    store,       \* idle values of the embedded sync.Pool: a bag of `any`
    heap,        \* content of each object (field data / buffer content)
    nextObj,     \* number of objects allocated so far
    newCounter,  \* number of newFunc invocations
    pc,          \* per caller: "idle", "miss" (inside Get, after an empty
                 \* store lookup, before the New hook), "panicked"
    held,        \* per caller: the T its Get returned and it is using
    owns,        \* per caller: it has a value from Get
    lastRaw,     \* per caller: the `any` its last Get received (v in Get)
    origin,      \* per caller: where the value in held comes from: "store"
                 \* (a value that was idle), "unknown" (from the store, but
                 \* not a value that was idle), "factory", "nohook" (a miss
                 \* with the hook overridden), "caller" (a struct the caller
                 \* has changed since), "none"
    made,        \* per caller: the T newFunc returned during its last Get
    disciplined, \* history: every Put so far released a checked-out value
    lossy,       \* history: the store has reclaimed a value
    anyPut,      \* history: Put has been called
    idle,        \* history: the bag of T values passed to Put and accepted
                 \* by the store, less those a Get has returned since and
                 \* those reclaimed
    peak,        \* history: peak number of callers holding or acquiring
    win,         \* history: the running Get; Put(v); Get sequence
    pw,          \* history: the running Put(v) of a new value; Get sequence
    dr           \* history: the running Put(v); Put(v); Get; Get sequence

vars == <<kind, factory, hook, store, heap, nextObj, newCounter, pc, held,
          owns, lastRaw, origin, made, disciplined, lossy, anyPut, idle, peak,
          win, pw, dr>>

\* ---- values and conversions ----
NilAny == [dyn |-> "none", ref |-> 0]

\* var zero T
Zero == 0

\* the dynamic type a non-nil T has once boxed
DynOf(k) == IF k = "val" THEN "val" ELSE "ptr"

\* conversion of a T to `any` (return newFunc() in the adapter, the argument
\* of p.Pool.Put): a concrete T always yields a non-nil interface, also for
\* a nil pointer; a nil interface T stays the nil interface
\* Variants: a conversion that keeps the type and loses the value; a
\* conversion that turns every nil into the nil interface.
BoxNilAsNil(k, t) ==
    IF k # "val" /\ t = 0 THEN NilAny ELSE [dyn |-> DynOf(k), ref |-> t]
BoxDropsValue(k, t) ==
    IF k = "iface" THEN NilAny ELSE [dyn |-> DynOf(k), ref |-> 0]
Box(k, t) ==
    IF k = "iface" /\ t = 0 THEN NilAny ELSE [dyn |-> DynOf(k), ref |-> t]

\* does the type assertion v.(T) succeed
Asserts(k, v) ==
    IF k = "iface" THEN v.dyn # "none" ELSE v.dyn = DynOf(k)

\* Pool.Get after p.Pool.Get() returned v: the nil test, then v.(T).
\* ok says that Get returns (the assertion does not panic), val is the
\* T it returns.
\* Variants: Get without the nil test (return p.Pool.Get().(T)); Get whose
\* nil branch returns a non-zero T; Get that returns the zero value always.
TypedGetNoNilTest(k, v) ==
    IF Asserts(k, v) THEN [ok |-> TRUE, val |-> v.ref]
    ELSE [ok |-> FALSE, val |-> 0]
TypedGetFallbackOne(k, v) ==
    IF v = NilAny THEN [ok |-> TRUE, val |-> 1]
    ELSE IF Asserts(k, v) THEN [ok |-> TRUE, val |-> v.ref]
    ELSE [ok |-> FALSE, val |-> 0]
TypedGetAlwaysZero(k, v) ==
    IF v = NilAny \/ Asserts(k, v) THEN [ok |-> TRUE, val |-> Zero]
    ELSE [ok |-> FALSE, val |-> 0]
TypedGet(k, v) ==
    IF v = NilAny THEN [ok |-> TRUE, val |-> Zero]
    ELSE IF Asserts(k, v) THEN [ok |-> TRUE, val |-> v.ref]
    ELSE [ok |-> FALSE, val |-> 0]

AnyVals == {NilAny} \cup [dyn : {"ptr"}, ref : 0..MaxObj] \cup [dyn : {"val"}, ref : Data]

\* the history of one caller's Get; Put(v); Get sequence with no Get of
\* another caller and no reclamation in between: ph 1 after the first Get of
\* caller c, ph 2 after its Put(v) with n factory calls so far, ph 3 after
\* its second Get; same says that the second Get returned v with the factory
\* count still n, sole that v was the only idle value when it started
NoWin == [c |-> 0, ph |-> 0, v |-> 0, n |-> 0, same |-> FALSE, sole |-> FALSE]
FirstGet(c) == [NoWin EXCEPT !.c = c, !.ph = 1]

\* the history of one caller's Put(v); Get sequence, v a non-nil value the
\* caller made itself and the store empty at the Put, with no Get of
\* another caller and no reclamation in between: ph 1 after the Put(v) of
\* caller c, with n factory calls so far and d the content of the object v
\* points to, ph 2 after its next Get; same says that this Get returned v
\* with the content d and the factory count still n, sole that the store
\* held no value other than v when it started
NoPw == [c |-> 0, ph |-> 0, v |-> 0, n |-> 0, d |-> 0,
         same |-> FALSE, sole |-> FALSE]

\* the history of a double release with no reclamation since: v is the
\* pointer that was Put while a copy of it was idle in the store (0 when
\* there is none), got the number of Gets the store has served with a copy
\* of v since, ok says that each of them returned v
NoDr == [v |-> 0, got |-> 0, ok |-> TRUE]

Demand(p, o) == Cardinality({c \in Callers : p[c] # "idle" \/ o[c]})
Max(a, b) == IF a >= b THEN a ELSE b

\* ---- New ----
\* Variant: a New that calls newFunc once at construction.
InitEager ==
    /\ kind \in Kinds
    /\ factory \in {"fresh", "nil"}
    /\ (kind = "val" => factory = "fresh")
    /\ hook = "adapter"
    /\ store = EmptyBag
    /\ heap = [o \in Objs |-> 0]
    /\ nextObj = 0
    /\ newCounter = 1
    /\ pc = [c \in Callers |-> "idle"]
    /\ held = [c \in Callers |-> 0]
    /\ owns = [c \in Callers |-> FALSE]
    /\ lastRaw = [c \in Callers |-> NilAny]
    /\ origin = [c \in Callers |-> "none"]
    /\ made = [c \in Callers |-> 0]
    /\ disciplined = TRUE
    /\ lossy = FALSE
    /\ anyPut = FALSE
    /\ idle = EmptyBag
    /\ peak = 0
    /\ win = NoWin
    /\ pw = NoPw
    /\ dr = NoDr
Init ==
    /\ kind \in Kinds
    /\ factory \in {"fresh", "nil"}
    /\ (kind = "val" => factory = "fresh")
    /\ hook = "adapter"
    /\ store = EmptyBag
    /\ heap = [o \in Objs |-> 0]
    /\ nextObj = 0
    /\ newCounter = 0
    /\ pc = [c \in Callers |-> "idle"]
    /\ held = [c \in Callers |-> 0]
    /\ owns = [c \in Callers |-> FALSE]
    /\ lastRaw = [c \in Callers |-> NilAny]
    /\ origin = [c \in Callers |-> "none"]
    /\ made = [c \in Callers |-> 0]
    /\ disciplined = TRUE
    /\ lossy = FALSE
    /\ anyPut = FALSE
    /\ idle = EmptyBag
    /\ peak = 0
    /\ win = NoWin
    /\ pw = NoPw
    /\ dr = NoDr

\* ---- the embedded sync.Pool ----
\* sync.Pool.Put: a nil interface is not stored
\* Variants: a Put that stores nothing; a Put that refuses a value the store
\* already holds; a Put that treats a nil pointer as the nil interface.
StorePutNothing(s, b) == s
StorePutNoNilPtr(s, b) ==
    IF b = NilAny \/ (b.dyn = "ptr" /\ b.ref = 0) THEN s ELSE s (+) SetToBag({b})
StorePutOnce(s, b) == IF b = NilAny \/ BagIn(b, s) THEN s ELSE s (+) SetToBag({b})
StorePut(s, b) == IF b = NilAny THEN s ELSE s (+) SetToBag({b})

\* sync.Pool.Get taking the idle value b
\* Variants: a Get that leaves b in the store; a Get that empties the store.
StoreTakeKeep(s, b) == s
StoreTakeAll(s, b) == EmptyBag
StoreTake(s, b) == s (-) SetToBag({b})

\* sync.Pool.Get on a miss: the New hook, if set, produces the result.
\* t is what newFunc returns when the hook is the adapter installed by New.
\* Variant: an adapter that drops the result of newFunc.
HookResultNil(h, k, t) == NilAny
HookResult(h, k, t) == IF h = "adapter" THEN Box(k, t) ELSE NilAny

\* newFunc: a fresh object, the struct {X: 1}, or nil
NewFunc(f, k, n) == IF f = "nil" THEN 0 ELSE IF k = "val" THEN 1 ELSE n + 1

\* the history of the Get; Put; Get sequence after caller c's Get returned t
WinAfterGet(c, t, n, s) ==
    IF win.c = c /\ win.ph = 2
    THEN [NoWin EXCEPT !.c = c, !.ph = 3,
                       !.same = (t = win.v /\ n = win.n),
                       !.sole = (s = SetToBag({Box(kind, win.v)}))]
    ELSE FirstGet(c)

\* the history of the Put(v); Get sequence after a Get step of caller c on
\* the store s: the Get returned t (found says that it returned at all, and
\* returned a value of the store)
PwAfterGet(c, found, t, s) ==
    IF pw.c = c /\ pw.ph = 1
    THEN [NoPw EXCEPT !.c = c, !.ph = 2,
                      !.same = /\ found /\ t = pw.v /\ newCounter = pw.n
                               /\ (kind # "val" => heap[pw.v] = pw.d),
                      !.sole = (BagToSet(s) \subseteq {Box(kind, pw.v)})]
    ELSE NoPw

\* the history of the Put(v); Get sequence after a step that is neither a
\* Get nor a reclamation
PwAfterOther == IF pw.ph = 1 THEN pw ELSE NoPw

\* the history of a double release after a step that is neither a Put, nor
\* a Get the store serves, nor a reclamation
DrAfterOther == IF dr.got >= 2 THEN NoDr ELSE dr

\* the history of a double release after a Get to which the store gave b:
\* the Get returned t (found says that it returned at all)
DrAfterGet(b, found, t) ==
    IF dr.v # 0 /\ dr.got < 2 /\ b = Box(kind, dr.v)
    THEN [dr EXCEPT !.got = dr.got + 1, !.ok = dr.ok /\ found /\ t = dr.v]
    ELSE DrAfterOther

\* ---- Pool.Get, store lookup: a stored value is returned at once ----
GetHit(c) ==
    /\ pc[c] = "idle" /\ ~owns[c]
    /\ store # EmptyBag
    /\ \E b \in BagToSet(store) :
        /\ store' = StoreTake(store, b)
        /\ lastRaw' = [lastRaw EXCEPT ![c] = b]
        /\ IF TypedGet(kind, b).ok
           THEN /\ held' = [held EXCEPT ![c] = TypedGet(kind, b).val]
                /\ owns' = [owns EXCEPT ![c] = TRUE]
                /\ pc' = pc
                /\ win' = WinAfterGet(c, TypedGet(kind, b).val, newCounter, store)
           ELSE /\ pc' = [pc EXCEPT ![c] = "panicked"]
                /\ UNCHANGED <<held, owns>>
                /\ win' = NoWin
        /\ origin' = [origin EXCEPT ![c] =
                IF BagIn(TypedGet(kind, b).val, idle) THEN "store" ELSE "unknown"]
        /\ idle' = idle (-) SetToBag({TypedGet(kind, b).val})
        /\ pw' = PwAfterGet(c, TypedGet(kind, b).ok, TypedGet(kind, b).val, store)
        /\ dr' = DrAfterGet(b, TypedGet(kind, b).ok, TypedGet(kind, b).val)
    /\ made' = [made EXCEPT ![c] = 0]
    /\ peak' = Max(peak, Demand(pc', owns'))
    /\ UNCHANGED <<kind, factory, hook, heap, nextObj, newCounter,
                   disciplined, lossy, anyPut>>

\* The counters are bounded: a Get starts on an empty store, and a caller
\* makes an object of its own, only while the bounds leave room for the
\* factory call of every Get that is past its lookup, so that no Get is
\* stopped half-way by a bound.
Pending == Cardinality({d \in Callers : pc[d] = "miss"})
RoomForCall ==
    /\ hook = "adapter" => newCounter + Pending < MaxNew
    /\ hook = "adapter" /\ factory = "fresh" /\ kind # "val"
          => nextObj + Pending < MaxObj

\* ---- Pool.Get, store lookup on an empty store ----
GetMiss(c) ==
    /\ pc[c] = "idle" /\ ~owns[c]
    /\ store = EmptyBag
    /\ RoomForCall
    /\ pc' = [pc EXCEPT ![c] = "miss"]
    /\ origin' = [origin EXCEPT ![c] = "none"]
    /\ made' = [made EXCEPT ![c] = 0]
    /\ lastRaw' = [lastRaw EXCEPT ![c] = NilAny]
    /\ peak' = Max(peak, Demand(pc', owns))
    /\ win' = IF win.c = c /\ win.ph = 2
              THEN win
              ELSE IF win.ph \in {1, 2} THEN NoWin ELSE win
    /\ pw' = PwAfterGet(c, FALSE, 0, store)
    /\ dr' = DrAfterOther
    /\ UNCHANGED <<kind, factory, hook, store, heap, nextObj, newCounter,
                   held, owns, disciplined, lossy, anyPut, idle>>

\* sync.Pool.Get calls the New hook as soon as its lookup has found nothing:
\* it does not wait for a Put.
\* Variant: a Get that waits until the store holds a value.
MissReadyWaits(c) == pc[c] = "miss" /\ store # EmptyBag
MissReady(c) == pc[c] = "miss"

\* ---- Pool.Get after a miss: the New hook, the nil test, the assertion ----
GetNew(c) ==
    /\ MissReady(c)
    /\ hook = "adapter" => newCounter < MaxNew
    /\ hook = "adapter" /\ factory = "fresh" /\ kind # "val" => nextObj < MaxObj
    /\ LET t == NewFunc(factory, kind, nextObj)
           b == HookResult(hook, kind, t)
           n == IF hook = "adapter" THEN newCounter + 1 ELSE newCounter
       IN  /\ newCounter' = n
           /\ nextObj' = IF hook = "adapter" /\ factory = "fresh" /\ kind # "val"
                         THEN nextObj + 1 ELSE nextObj
           /\ made' = [made EXCEPT ![c] = IF hook = "adapter" THEN t ELSE 0]
           /\ origin' = [origin EXCEPT ![c] =
                            IF hook = "adapter" THEN "factory" ELSE "nohook"]
           /\ lastRaw' = [lastRaw EXCEPT ![c] = b]
           /\ IF TypedGet(kind, b).ok
              THEN /\ held' = [held EXCEPT ![c] = TypedGet(kind, b).val]
                   /\ owns' = [owns EXCEPT ![c] = TRUE]
                   /\ pc' = [pc EXCEPT ![c] = "idle"]
                   /\ win' = WinAfterGet(c, TypedGet(kind, b).val, n, EmptyBag)
              ELSE /\ pc' = [pc EXCEPT ![c] = "panicked"]
                   /\ UNCHANGED <<held, owns>>
                   /\ win' = NoWin
    /\ pw' = NoPw
    /\ dr' = DrAfterOther
    /\ UNCHANGED <<kind, factory, hook, store, heap, disciplined, lossy,
                   anyPut, idle, peak>>

\* the history of the Get; Put; Get sequence after caller c's Put; rel says
\* that c released the value its Get returned
WinAfterPut(c, rel) ==
    IF win.c = c
    THEN IF rel /\ win.ph \in {1, 3}
         THEN [NoWin EXCEPT !.c = c, !.ph = 2, !.v = held[c], !.n = newCounter]
         ELSE NoWin
    ELSE win

\* the history of the Put(v); Get sequence after caller c's Put(x); new says
\* that c made x itself
PwAfterPut(c, x, new) ==
    IF new /\ store = EmptyBag /\ (kind = "val" \/ x # 0)
    THEN [NoPw EXCEPT !.c = c, !.ph = 1, !.v = x, !.n = newCounter,
                      !.d = IF kind = "val" THEN 0 ELSE heap[x]]
    ELSE PwAfterOther

\* the history of a double release after Put(x)
DrAfterPut(x) ==
    IF kind # "val" /\ x # 0 /\ BagIn(Box(kind, x), store)
    THEN [v |-> x, got |-> 0, ok |-> TRUE]
    ELSE DrAfterOther

\* ---- Pool.Put(x): the value goes to the store as it is ----
\* Variant: a Put that clears the object it stores.
PutValueReset(x) ==
    /\ store' = StorePut(store, Box(kind, x))
    /\ idle' = IF Box(kind, x) = NilAny THEN idle ELSE idle (+) SetToBag({x})
    /\ heap' = [o \in Objs |-> IF o = x /\ kind # "val" THEN 0 ELSE heap[o]]
PutValue(x) ==
    /\ store' = StorePut(store, Box(kind, x))
    /\ idle' = IF Box(kind, x) = NilAny THEN idle ELSE idle (+) SetToBag({x})
    /\ heap' = heap

\* Put of the value the caller's Get returned
PutHeld(c) ==
    /\ pc[c] = "idle" /\ owns[c]
    /\ BagCardinality(store) < MaxStore
    /\ PutValue(held[c])
    /\ owns' = [owns EXCEPT ![c] = FALSE]
    /\ held' = [held EXCEPT ![c] = 0]
    /\ lastRaw' = [lastRaw EXCEPT ![c] = NilAny]
    /\ origin' = [origin EXCEPT ![c] = "none"]
    /\ made' = [made EXCEPT ![c] = 0]
    /\ anyPut' = TRUE
    /\ win' = WinAfterPut(c, TRUE)
    /\ pw' = PwAfterPut(c, held[c], FALSE)
    /\ dr' = DrAfterPut(held[c])
    /\ UNCHANGED <<kind, factory, hook, nextObj, newCounter, pc,
                   disciplined, lossy, peak>>

\* Put of the value the caller's Get returned, which the caller goes on
\* using (and may Put again)
PutKeep(c) ==
    /\ pc[c] = "idle" /\ owns[c]
    /\ BagCardinality(store) < MaxStore
    /\ PutValue(held[c])
    /\ anyPut' = TRUE
    /\ disciplined' = FALSE
    /\ win' = WinAfterPut(c, FALSE)
    /\ pw' = PwAfterPut(c, held[c], FALSE)
    /\ dr' = DrAfterPut(held[c])
    /\ UNCHANGED <<kind, factory, hook, nextObj, newCounter, pc, held, owns,
                   lastRaw, origin, made, lossy, peak>>

\* Put of a value the caller made itself: a new object, nil, or a struct
PutFresh(c) ==
    /\ pc[c] = "idle"
    /\ BagCardinality(store) < MaxStore
    /\ \E x \in 0..Max(MaxObj, MaxData) :
        /\ IF kind = "val" THEN x \in Data ELSE x = 0 \/ x = nextObj + 1
        /\ kind # "val" /\ x # 0 => nextObj < MaxObj /\ RoomForCall
        /\ nextObj' = IF kind # "val" /\ x # 0 THEN nextObj + 1 ELSE nextObj
        /\ PutValue(x)
        /\ pw' = PwAfterPut(c, x, TRUE)
        /\ dr' = DrAfterPut(x)
    /\ anyPut' = TRUE
    /\ disciplined' = FALSE
    /\ win' = WinAfterPut(c, FALSE)
    /\ UNCHANGED <<kind, factory, hook, newCounter, pc, held, owns,
                   lastRaw, origin, made, lossy, peak>>

\* ---- the caller changes the value it holds ----
Mutate(c) ==
    /\ pc[c] = "idle" /\ owns[c]
    /\ \E d \in Data :
        IF kind = "val"
        THEN /\ d # held[c]
             /\ held' = [held EXCEPT ![c] = d]
             /\ origin' = [origin EXCEPT ![c] = "caller"]
             /\ heap' = heap
        ELSE /\ held[c] # 0
             /\ d # heap[held[c]]
             /\ heap' = [heap EXCEPT ![held[c]] = d]
             /\ UNCHANGED <<held, origin>>
    /\ UNCHANGED <<kind, factory, hook, store, nextObj, newCounter, pc, owns,
                   lastRaw, made, disciplined, lossy, anyPut, idle, peak, win>>
    /\ pw' = PwAfterOther
    /\ dr' = DrAfterOther

\* ---- p.Pool.New = func() any { return nil } ----
OverrideNew ==
    /\ hook = "adapter"
    /\ hook' = "nilfunc"
    /\ UNCHANGED <<kind, factory, store, heap, nextObj, newCounter, pc, held,
                   owns, lastRaw, origin, made, disciplined, lossy, anyPut,
                   idle, peak, win>>
    /\ pw' = PwAfterOther
    /\ dr' = DrAfterOther

\* ---- the store discards an idle value ----
\* This step stands for every way the policy of sync.Pool makes an idle
\* value unavailable to later Gets (garbage collection of the pool's caches).
\* Variant: a reclamation that also clears the objects.
ReclaimZeroes ==
    /\ \E b \in BagToSet(store) :
        /\ store' = StoreTake(store, b)
        /\ idle' = idle (-) SetToBag({x \in BagToSet(idle) : Box(kind, x) = b})
    /\ heap' = [o \in Objs |-> 0]
    /\ lossy' = TRUE
    /\ win' = IF win.ph \in {1, 2} THEN NoWin ELSE win
    /\ pw' = NoPw
    /\ dr' = NoDr
    /\ UNCHANGED <<kind, factory, hook, nextObj, newCounter, pc, held,
                   owns, lastRaw, origin, made, disciplined, anyPut, peak>>
Reclaim ==
    /\ \E b \in BagToSet(store) :
        /\ store' = StoreTake(store, b)
        /\ idle' = idle (-) SetToBag({x \in BagToSet(idle) : Box(kind, x) = b})
    /\ lossy' = TRUE
    /\ win' = IF win.ph \in {1, 2} THEN NoWin ELSE win
    /\ pw' = NoPw
    /\ dr' = NoDr
    /\ UNCHANGED <<kind, factory, hook, heap, nextObj, newCounter, pc, held,
                   owns, lastRaw, origin, made, disciplined, anyPut, peak>>

Next ==
    \/ \E c \in Callers : GetHit(c)
    \/ \E c \in Callers : GetMiss(c)
    \/ \E c \in Callers : GetNew(c)
    \/ \E c \in Callers : PutHeld(c)
    \/ \E c \in Callers : PutKeep(c)
    \/ \E c \in Callers : PutFresh(c)
    \/ \E c \in Callers : Mutate(c)
    \/ OverrideNew
    \/ Reclaim

Spec == Init /\ [][Next]_vars

\* The Go scheduler runs every runnable goroutine: a caller inside Get takes
\* its next step.
FairSpec == Spec /\ \A c \in Callers : WF_vars(GetNew(c))

TypeOK ==
    /\ kind \in Kinds /\ factory \in {"fresh", "nil"}
    /\ hook \in {"adapter", "nilfunc"}
    /\ BagToSet(store) \subseteq AnyVals
    /\ BagCardinality(store) <= MaxStore
    /\ nextObj \in 0..MaxObj /\ newCounter \in 0..MaxNew
    /\ \A c \in Callers : pc[c] \in {"idle", "miss", "panicked"}
    /\ peak \in 0..NumCallers

\* ---- the claims ----
Holders(o) == Cardinality({c \in Callers : owns[c] /\ held[c] = o})
Returned(c) == pc[c] = "idle" /\ owns[c] /\ origin[c] \in {"store", "factory", "nohook"}

\* C1 as stated: whenever a caller does Get (obtaining v), Put(v), Get with
\* no Get of another caller and no reclamation in between, the second Get
\* returns v and the factory count is what it was after the first Get.
C1_ReuseAfterRelease == win.ph = 3 => win.same

\* C1 amended: the same, provided v is the only idle value in the store
\* when the second Get starts.
C1_ReuseWhenSoleIdle == win.ph = 3 /\ win.sole => win.same

C1_Witness ==
    /\ win.ph = 3 /\ win.sole /\ win.same
    /\ held[win.c] # 0 /\ origin[win.c] = "store" /\ newCounter = 1

\* C2: a Get to which the store yields the nil interface, or whose factory
\* returned nil, returns the zero value of T and does not panic, for
\* pointer, struct and interface T.
C2_ZeroValueFallback ==
    \A c \in Callers :
        /\ origin[c] \in {"store", "factory", "nohook"}
        /\ lastRaw[c] = NilAny \/ (origin[c] = "factory" /\ factory = "nil")
        => pc[c] = "idle" /\ owns[c] /\ held[c] = Zero

C2_Witness ==
    \E c \in Callers :
        /\ kind = "val" /\ origin[c] = "nohook" /\ lastRaw[c] = NilAny
        /\ Returned(c) /\ held[c] = Zero /\ newCounter = 0

\* C3: while every Put releases a value its caller holds (once per Get) and
\* the factory returns a distinct object per call, no object is held by two
\* callers, or held by a caller while it is idle in the store, or stored
\* twice.
C3_ExclusiveOwnership ==
    disciplined /\ factory = "fresh" /\ kind # "val" =>
        \A o \in Objs : Holders(o) + CopiesIn(Box(kind, o), store) <= 1

C3_Witness ==
    /\ disciplined /\ factory = "fresh" /\ kind = "ptr"
    /\ \E c, d \in Callers :
        /\ c # d /\ Returned(c) /\ Returned(d)
        /\ held[c] # 0 /\ held[d] # 0 /\ held[c] # held[d]
        /\ origin[c] = "store" /\ origin[d] = "store"

\* C4 as stated: while callers loop Get, mutate, Put on objects the factory
\* makes, the number of factory invocations never exceeds the peak number of
\* callers holding or acquiring a value.
C4_FactoryBound ==
    disciplined /\ factory = "fresh" => newCounter <= peak

\* C4 amended: the same, provided the store has reclaimed no value.
C4_FactoryBoundNoReclaim ==
    disciplined /\ factory = "fresh" /\ ~lossy => newCounter <= peak

C4_Witness ==
    /\ disciplined /\ factory = "fresh" /\ ~lossy
    /\ newCounter = 2 /\ peak = 2
    /\ \E c \in Callers : Returned(c) /\ origin[c] = "store" /\ held[c] = 2

\* C5: no Get ends in a failed type assertion: whatever the store holds or
\* has yielded to a Get is nil or asserts to T, also once the New hook is
\* overridden to return nil.
C5_NoTypeFault ==
    /\ \A c \in Callers : pc[c] # "panicked"
    /\ \A b \in BagToSet(store) : Asserts(kind, b)
    /\ \A c \in Callers :
        origin[c] # "none" => lastRaw[c] = NilAny \/ Asserts(kind, lastRaw[c])

C5_Witness ==
    /\ hook = "nilfunc" /\ kind = "val"
    /\ \E c, d \in Callers :
        /\ Returned(c) /\ origin[c] = "nohook" /\ lastRaw[c] = NilAny
        /\ Returned(d) /\ origin[d] = "store" /\ lastRaw[d] = Box(kind, 1)

\* C6: a value Get returns, other than the zero value of the nil branch, is
\* the value newFunc returned during that Get, or a value that was passed to
\* Put and had not been returned by a Get (nor reclaimed) since; the store
\* holds exactly the values Put and not yet returned or reclaimed.
C6_Provenance ==
    /\ \A c \in Callers :
        Returned(c) /\ lastRaw[c] # NilAny =>
            \/ origin[c] = "factory" /\ held[c] = made[c]
            \/ origin[c] = "store"
    /\ \A c \in Callers : origin[c] # "unknown"
    /\ BagCardinality(store) = BagCardinality(idle)
    /\ \A x \in BagToSet(idle) : CopiesIn(x, idle) = CopiesIn(Box(kind, x), store)

C6_Witness ==
    /\ kind = "ptr" /\ factory = "fresh"
    /\ \E c, d \in Callers :
        /\ Returned(c) /\ origin[c] = "factory" /\ held[c] = 2 /\ made[c] = 2
        /\ Returned(d) /\ origin[d] = "store" /\ held[d] = 1
    /\ idle = EmptyBag

\* C7: on a pool from New, before any Put, a Get invokes the factory once
\* and returns what it returned; after the first such Get alone the factory
\* count is 1.
C7_FreshOnEmpty ==
    \A c \in Callers :
        ~anyPut /\ hook = "adapter" /\ Returned(c) =>
            /\ origin[c] = "factory" /\ held[c] = made[c]
            /\ (\A d \in Callers \ {c} : pc[d] = "idle" /\ ~owns[d])
                  => newCounter = 1

C7_Witness ==
    /\ ~anyPut /\ hook = "adapter" /\ kind = "ptr" /\ factory = "fresh"
    /\ newCounter = 1 /\ nextObj = 1
    /\ \E c \in Callers :
        /\ Returned(c) /\ held[c] = 1
        /\ \A d \in Callers \ {c} : pc[d] = "idle" /\ ~owns[d]

\* C8: the pool never changes the content of a pooled value: while every
\* Put releases a value its caller holds, the content of an object is the
\* same after every step in which the object enters the store (Put), leaves
\* it (Get) or sits idle in it.
C8_NoImplicitReset ==
    [][disciplined' /\ kind # "val" =>
        \A o \in Objs :
            BagIn(Box(kind, o), store) \/ BagIn(Box(kind, o), store')
                => heap'[o] = heap[o]]_vars

C8_Witness ==
    /\ disciplined /\ kind = "ptr"
    /\ \E c \in Callers :
        /\ Returned(c) /\ origin[c] = "store"
        /\ held[c] # 0 /\ heap[held[c]] = 1

\* C9: the factory is not invoked by New; its count grows only by one, in
\* the step of a Get that follows that Get's lookup of an empty store and in
\* which the hook is the adapter; a Get that finds a stored value returns
\* without invoking it; Put never invokes it.
C9_FactoryDiscipline ==
    /\ newCounter = 0
    /\ [][/\ newCounter' # newCounter =>
                /\ newCounter' = newCounter + 1
                /\ hook = "adapter"
                /\ store' = store
                /\ \E c \in Callers :
                    /\ pc[c] = "miss" /\ pc'[c] # "miss"
                    /\ \A d \in Callers \ {c} : pc'[d] = pc[d]
          /\ \A c \in Callers :
                pc[c] = "idle" /\ pc'[c] = "miss" => store = EmptyBag
          /\ \A c \in Callers :
                pc[c] = "miss" /\ pc'[c] = "idle" /\ hook = "adapter"
                    => newCounter' = newCounter + 1
          /\ store' # store => newCounter' = newCounter]_vars

C9_Witness ==
    /\ newCounter = 1 /\ anyPut
    /\ \E c, d \in Callers :
        /\ c # d /\ Returned(c) /\ origin[c] = "store"
        /\ pc[d] = "miss" /\ hook = "adapter"

\* C10: a reclaim step removes idle values only: it leaves every caller's
\* value, its content and the factory count unchanged; and a Get that finds
\* the store empty, also after a reclaim, returns an object that did not
\* exist before, made by one factory call.
ReclaimStep ==
    /\ BagCardinality(store') < BagCardinality(store)
    /\ owns' = owns

C10_ReclaimOnlyIdle ==
    [][/\ ReclaimStep =>
            /\ held' = held /\ heap' = heap /\ pc' = pc
            /\ newCounter' = newCounter /\ nextObj' = nextObj
            /\ \A b \in BagToSet(store') : CopiesIn(b, store') <= CopiesIn(b, store)
       /\ \A c \in Callers :
            /\ pc[c] = "miss" /\ pc'[c] = "idle"
            /\ hook = "adapter" /\ factory = "fresh" /\ kind # "val"
            => /\ held'[c] > nextObj /\ held'[c] = nextObj'
               /\ newCounter' = newCounter + 1
               /\ store' = store]_vars

C10_Witness ==
    /\ lossy /\ kind = "ptr" /\ factory = "fresh" /\ store = EmptyBag
    /\ newCounter = 2 /\ peak = 1 /\ disciplined
    /\ \E c \in Callers : Returned(c) /\ origin[c] = "factory" /\ held[c] = 2

\* C11: no call waits for another caller: a Get past its lookup of an empty
\* store can always take its next step, the New hook, whatever the other
\* callers do, and under fair scheduling it returns; Put and a Get that
\* finds a value are single steps.
C11_NonBlocking ==
    /\ \A c \in Callers : [](pc[c] = "miss" => ENABLED GetNew(c))
    /\ \A c \in Callers : (pc[c] = "miss") ~> (pc[c] = "idle" /\ owns[c])

C11_Witness ==
    /\ ~anyPut /\ store = EmptyBag /\ hook = "adapter" /\ newCounter = 2
    /\ \A c \in Callers : Returned(c) /\ origin[c] = "factory"

\* C12 as stated: whenever a caller Puts a non-nil value v it made itself
\* on an empty store and then calls Get, with no Get of another caller and
\* no reclamation in between, that Get returns v, with the content v had at
\* the Put, and the factory count is what it was at the Put.
C12_PutAcceptsFresh == pw.ph = 2 => pw.same

\* C12 amended: the same, provided the store holds no value other than v
\* when the Get starts.
C12_PutAcceptsFreshSole == pw.ph = 2 /\ pw.sole => pw.same

C12_Witness ==
    /\ pw.ph = 2 /\ pw.sole /\ pw.same
    /\ kind = "ptr" /\ held[pw.c] # 0 /\ origin[pw.c] = "store"
    /\ newCounter = 0 /\ ~lossy

TypedNil == Box("ptr", 0)
PutNil(c) ==
    \/ PutFresh(c) /\ nextObj' = nextObj
    \/ (PutHeld(c) \/ PutKeep(c)) /\ held[c] = 0

\* C14: for a pointer T, every Put(nil) adds the typed nil to the store,
\* whatever the factory returns; a typed nil leaves the store only by
\* reclamation or in a Get that returns nil to its caller and leaves the
\* factory count as it is; and a Get that starts on a store holding nothing
\* but typed nils is such a Get.
C14_NilPooled ==
    [][kind = "ptr" =>
        /\ \A c \in Callers :
              PutNil(c) =>
                  CopiesIn(TypedNil, store') = CopiesIn(TypedNil, store) + 1
        /\ CopiesIn(TypedNil, store') < CopiesIn(TypedNil, store) =>
              \/ ReclaimStep
              \/ \E c \in Callers :
                    /\ ~owns[c] /\ owns'[c] /\ pc'[c] = "idle"
                    /\ lastRaw'[c] = TypedNil /\ held'[c] = 0
                    /\ newCounter' = newCounter
                    /\ CopiesIn(TypedNil, store') = CopiesIn(TypedNil, store) - 1
        /\ \A c \in Callers :
              /\ pc[c] = "idle" /\ ~owns[c] /\ BagToSet(store) = {TypedNil}
              /\ pc'[c] # "idle" \/ owns'[c]
              => /\ owns'[c] /\ pc'[c] = "idle"
                 /\ lastRaw'[c] = TypedNil /\ held'[c] = 0
                 /\ newCounter' = newCounter]_vars

\* a Get has returned the nil a caller Put, the factory makes objects only
\* and was never called
C14_Witness ==
    /\ kind = "ptr" /\ factory = "fresh" /\ hook = "adapter"
    /\ ~lossy /\ newCounter = 0
    /\ \E c \in Callers :
          /\ Returned(c) /\ origin[c] = "store"
          /\ lastRaw[c] = TypedNil /\ held[c] = 0

\* C15: a Get of caller c has returned, and c has the value as returned
Got(c) == pc[c] = "idle" /\ owns[c] /\ origin[c] # "caller"

\* C15: with a concrete T and the hook New installed, no Get takes the
\* zero-value branch (the store never hands it the nil interface): what it
\* returns is what the factory returned to this Get, boxed by the adapter,
\* or a value that was passed to Put; and whatever T is, a Get takes the
\* zero-value branch only after a miss with the hook overridden, or with an
\* interface T after a miss whose factory call returned nil.
C15_FallbackReach ==
    \A c \in Callers :
        Got(c) =>
            /\ kind # "iface" /\ hook = "adapter" =>
                  /\ lastRaw[c] # NilAny
                  /\ origin[c] \in {"factory", "store"}
                  /\ origin[c] = "factory" =>
                        /\ lastRaw[c] = Box(kind, made[c])
                        /\ held[c] = made[c]
            /\ lastRaw[c] = NilAny =>
                  \/ origin[c] = "nohook" /\ hook = "nilfunc"
                  \/ /\ kind = "iface" /\ factory = "nil"
                     /\ origin[c] = "factory" /\ made[c] = 0

\* the factory of a pointer T returned nil: the Get returned nil, and not
\* by the zero-value branch
C15_Witness ==
    /\ kind = "ptr" /\ factory = "nil" /\ hook = "adapter"
    /\ \E c \in Callers :
          /\ Got(c) /\ origin[c] = "factory" /\ newCounter = 1
          /\ lastRaw[c] = TypedNil /\ lastRaw[c] # NilAny /\ held[c] = 0

====
